---- MODULE Spec2Model ----
(***************************************************************************)
(* Model of the LoblawBio immune drug trial programs:                      *)
(*   ImmuneDrugTrialAnalysis.py   the batch script (load, frequency view,  *)
(*                                cohort t-tests, concluding sentence,     *)
(*                                baseline subset report, form question)   *)
(*   ImmuneDrugTrialDashboard.py  the dashboard's start-up computation and *)
(*                                its tab callback                         *)
(* The store is the SQLite file ImmuneDrugTrial.db: a schema (the names of *)
(* the tables and views that exist), the committed rows of each table and  *)
(* the rows written by the connection's open, uncommitted transaction.     *)
(*                                                                         *)
(* Conventions.  Subject and sample codes are TEXT in the program; they    *)
(* are modelled as naturals so that ORDER BY has an order to use.  A CSV   *)
(* row is a record with the number of cells it has (ncols) and one field   *)
(* per column.  The age cell is kept as the text the file holds and goes   *)
(* through SQLite's INTEGER column affinity when it is stored; the other   *)
(* integer columns are drawn from integer text and are written as the      *)
(* integers that affinity stores.  A percentage is the exact rational      *)
(* 100*count/total, or SQL NULL.                                            *)
(***************************************************************************)
EXTENDS Integers, Sequences, FiniteSets

VARIABLES
    csv,          \* data rows of cell-count.csv (the header row is skipped)
    pc,           \* position of the batch script; "idle" = no script process
    exit,         \* how the last script process ended
    schema,       \* names of the tables and views in the store
    staging,      \* committed rows of countCSVStaging (rowid order)
    pending,      \* staged rows of the open, uncommitted transaction
    Subjects,     \* committed rows of Subjects
    Samples,      \* committed rows of Samples
    before,       \* the store as the running (or last) script process found it
    loadedFrom,   \* <<c>> when the tables hold the committed load of CSV c
    freqDf,       \* Part 2 data frame
    cellDfs,      \* Part 3 data frames, one per population
    idx,          \* index of the t-test loop
    ttest,        \* printed t-test result per population
    conclusion,   \* populations the concluding sentence names as significant
    subset,       \* Part 4 data frames (the four baseline queries)
    formAnswer,   \* the number the form question prints
    scipyPools,   \* whether the installed scipy pools a single observation
    dashPc,       \* dashboard process: "off", "up" or "failed"
    dashCells,    \* dashboard's cell_data, one data frame per population
    dashStats,    \* dashboard's stats_results
    dashTables,   \* dashboard's subjects_df, samples_df, cell_frequencies_df
    dashSubset,   \* dashboard's four baseline data frames
    dashQueries,  \* pd.read_sql calls the dashboard process has made
    tab,          \* value of the Tabs component ("none": no page served yet)
    rendered      \* what the last render_content call returned

vars == <<csv, pc, exit, schema, staging, pending, Subjects, Samples, before,
          loadedFrom, freqDf, cellDfs, idx, ttest, conclusion, subset,
          formAnswer, scipyPools, dashPc, dashCells, dashStats, dashTables,
          dashSubset, dashQueries, tab, rendered>>

storeVars == <<schema, staging, pending, Subjects, Samples, loadedFrom>>
scriptVars == <<freqDf, cellDfs, idx, ttest, conclusion, subset, formAnswer>>
dashVars == <<dashPc, dashCells, dashStats, dashTables, dashSubset,
              dashQueries, tab, rendered>>

(***************************************************************************)
(* Bounds of the model                                                     *)
(***************************************************************************)
MaxLoadRows == 2     \* rows of a CSV of the load specification
MaxReplaceRows == 1  \* rows of a CSV that replaces an earlier one
MaxCount == 1        \* largest cell count of the frequency specification
MaxExtraRows == 1    \* rows after the first, frequency specification
MaxCohortRows == 2   \* rows of a CSV of the cohort specification
MaxTTestRows == 4    \* rows of a CSV of the t-test specification
MaxSubsetRows == 2   \* rows of a CSV of the subset specification

(***************************************************************************)
(* Schema and columns                                                      *)
(***************************************************************************)
NumColumns == 15

Populations == <<"b_cell", "cd8_t_cell", "cd4_t_cell", "nk_cell", "monocyte">>

PopSet == {Populations[i] : i \in 1..Len(Populations)}

StagingT == "countCSVStaging"
SubjectsT == "Subjects"
SamplesT == "Samples"
ViewT == "SampleCellFrequencies"

\* SQLite's INTEGER column affinity on a text cell: text that spells an
\* integer is stored as that integer, any other text is stored as text.
IntegerTexts == [t \in {"30", "31"} |-> IF t = "30" THEN 30 ELSE 31]

IntegerAffinity(text) ==
    IF text \in DOMAIN IntegerTexts
    THEN [isInt |-> TRUE, int |-> IntegerTexts[text], text |-> ""]
    ELSE [isInt |-> FALSE, int |-> 0, text |-> text]

\* The row executemany binds for one CSV row of NumColumns cells.
StagedRow(r) ==
    [project |-> r.project, subject |-> r.subject, condition |-> r.condition,
     age |-> IntegerAffinity(r.age), sex |-> r.sex, treatment |-> r.treatment,
     response |-> r.response, sample |-> r.sample, sample_type |-> r.sample_type,
     time_from_treatment |-> r.time_from_treatment,
     b_cell |-> r.b_cell, cd8_t_cell |-> r.cd8_t_cell, cd4_t_cell |-> r.cd4_t_cell,
     nk_cell |-> r.nk_cell, monocyte |-> r.monocyte]

\* SELECT DISTINCT project, subject, condition, age, sex, treatment, response
SubjectColumns(s) ==
    [project |-> s.project, subject |-> s.subject, condition |-> s.condition,
     age |-> s.age, sex |-> s.sex, treatment |-> s.treatment,
     response |-> s.response]

\* SELECT DISTINCT subject, sample, sample_type, time_from_treatment, counts
SampleColumns(s) ==
    [subject |-> s.subject, sample |-> s.sample, sample_type |-> s.sample_type,
     time_from_treatment |-> s.time_from_treatment,
     b_cell |-> s.b_cell, cd8_t_cell |-> s.cd8_t_cell, cd4_t_cell |-> s.cd4_t_cell,
     nk_cell |-> s.nk_cell, monocyte |-> s.monocyte]

SeqRange(s) == {s[i] : i \in 1..Len(s)}

SelectDistinctSubjects(stg) == {SubjectColumns(s) : s \in SeqRange(stg)}
SelectDistinctSamples(stg) == {SampleColumns(s) : s \in SeqRange(stg)}

\* PRIMARY KEY: no two rows of the table after the insert share the key.
SubjectKeyOk(old, new) ==
    /\ \A a, b \in new : a.subject = b.subject => a = b
    /\ \A a \in new : \A b \in old : a.subject # b.subject

SampleKeyOk(old, new) ==
    /\ \A a, b \in new : a.sample = b.sample => a = b
    /\ \A a \in new : \A b \in old : a.sample # b.sample

\* FOREIGN KEY (subject) REFERENCES Subjects(subject), PRAGMA foreign_keys = ON
ForeignKeyOk(subjects, new) ==
    \A a \in new : \E u \in subjects : u.subject = a.subject

(***************************************************************************)
(* Part 2: the SampleCellFrequencies view                                  *)
(***************************************************************************)
Null == [null |-> TRUE, num |-> 0, den |-> 1]

\* A divide that answers 0 for a zero divisor.
SqlDivideZero(a, b) ==
    IF b = 0 THEN [null |-> FALSE, num |-> 0, den |-> 1]
    ELSE [null |-> FALSE, num |-> a, den |-> b]

\* SQLite's "/" with a REAL operand: NULL when the divisor is zero,
\* otherwise the quotient (kept exact, as the pair num/den).
SqlDivide(a, b) ==
    IF b = 0 THEN Null ELSE [null |-> FALSE, num |-> a, den |-> b]

\* The cd8_t_cell and cd4_t_cell columns under each other's label.
CountOfSwapped(s, p) ==
    CASE p = "b_cell" -> s.b_cell
      [] p = "cd8_t_cell" -> s.cd4_t_cell
      [] p = "cd4_t_cell" -> s.cd8_t_cell
      [] p = "nk_cell" -> s.nk_cell
      [] p = "monocyte" -> s.monocyte

CountOf(s, p) ==
    CASE p = "b_cell" -> s.b_cell
      [] p = "cd8_t_cell" -> s.cd8_t_cell
      [] p = "cd4_t_cell" -> s.cd4_t_cell
      [] p = "nk_cell" -> s.nk_cell
      [] p = "monocyte" -> s.monocyte

\* A total that leaves the monocytes out.
TotalCountShort(s) ==
    s.b_cell + s.cd8_t_cell + s.cd4_t_cell + s.nk_cell

\* The CTE "totals": b_cell + cd8_t_cell + cd4_t_cell + nk_cell + monocyte
TotalCount(s) ==
    s.b_cell + s.cd8_t_cell + s.cd4_t_cell + s.nk_cell + s.monocyte

\* One SELECT of the view, for one row of totals.
FreqRecord(s, p) ==
    [subject |-> s.subject, sample |-> s.sample, total_count |-> TotalCount(s),
     population |-> p, count |-> CountOf(s, p),
     percentage |-> SqlDivide(100 * CountOf(s, p), TotalCount(s))]

\* A scan of Samples, in primary-key order.
RECURSIVE ScanSamples(_)
ScanSamples(S) ==
    IF S = {} THEN <<>>
    ELSE LET m == CHOOSE a \in S : \A b \in S : a.sample <= b.sample
         IN <<m>> \o ScanSamples(S \ {m})

\* One SELECT ... FROM totals of the view.
SelectPopulation(samples, p) ==
    LET scan == ScanSamples(samples)
    IN [i \in 1..Len(scan) |-> FreqRecord(scan[i], p)]

\* The five SELECTs joined by UNION ALL.
RECURSIVE UnionAll(_, _)
UnionAll(samples, k) ==
    IF k = 0 THEN <<>>
    ELSE UnionAll(samples, k - 1) \o SelectPopulation(samples, Populations[k])

ViewRows(samples) == UnionAll(samples, Len(Populations))

\* ORDER BY sample, population (population names in text order).
PopRank(p) ==
    CASE p = "b_cell" -> 1
      [] p = "cd4_t_cell" -> 2
      [] p = "cd8_t_cell" -> 3
      [] p = "monocyte" -> 4
      [] p = "nk_cell" -> 5

FreqBefore(a, b) ==
    \/ a.sample < b.sample
    \/ a.sample = b.sample /\ PopRank(a.population) < PopRank(b.population)

RECURSIVE InsertSorted(_, _)
InsertSorted(sorted, x) ==
    IF sorted = <<>> THEN <<x>>
    ELSE IF FreqBefore(x, Head(sorted)) THEN <<x>> \o sorted
         ELSE <<Head(sorted)>> \o InsertSorted(Tail(sorted), x)

RECURSIVE OrderBySamplePopulation(_)
OrderBySamplePopulation(rows) ==
    IF rows = <<>> THEN <<>>
    ELSE InsertSorted(OrderBySamplePopulation(Tail(rows)), Head(rows))

(***************************************************************************)
(* Part 3: the cohort queries and the t-test                               *)
(***************************************************************************)
RECURSIVE SetToSeq(_)
SetToSeq(S) ==
    IF S = {} THEN <<>>
    ELSE LET x == CHOOSE y \in S : TRUE IN <<x>> \o SetToSeq(S \ {x})

\* A WHERE clause without its sample_type condition.
CohortFilterAnyType(f, s, u, p) ==
    /\ u.treatment = "miraclib"
    /\ u.condition = "melanoma"
    /\ f.population = p

\* WHERE clause of the five Part 3 queries and of get_cell_data.
CohortFilter(f, s, u, p) ==
    /\ u.treatment = "miraclib"
    /\ u.condition = "melanoma"
    /\ s.sample_type = "PBMC"
    /\ f.population = p

\* Rows that one view record contributes to the join
\*   SampleCellFrequencies JOIN Samples ON sample JOIN Subjects ON subject.
JoinedRows(f, samples, subjects, p) ==
    SetToSeq({<<s, u>> \in samples \X subjects :
                 /\ s.sample = f.sample
                 /\ u.subject = s.subject
                 /\ CohortFilter(f, s, u, p)})

RECURSIVE ProjectJoin(_, _)
ProjectJoin(f, pairs) ==
    IF pairs = <<>> THEN <<>>
    ELSE <<[response |-> Head(pairs)[2].response, percentage |-> f.percentage]>>
         \o ProjectJoin(f, Tail(pairs))

RECURSIVE CellQuery(_, _, _, _)
CellQuery(view, samples, subjects, p) ==
    IF view = <<>> THEN <<>>
    ELSE ProjectJoin(Head(view), JoinedRows(Head(view), samples, subjects, p))
         \o CellQuery(Tail(view), samples, subjects, p)

\* SELECT Subjects.response, SampleCellFrequencies.percentage ... one population
GetCellData(p, samples, subjects) ==
    CellQuery(ViewRows(samples), samples, subjects, p)

\* df.loc[df['response'] == label, "percentage"]
RECURSIVE GroupOf(_, _)
GroupOf(df, label) ==
    IF df = <<>> THEN <<>>
    ELSE (IF Head(df).response = label THEN <<Head(df).percentage>> ELSE <<>>)
         \o GroupOf(Tail(df), label)

\* ---- scipy.stats.ttest_ind(a, b, equal_var=True), two-sided ----
RECURSIVE Gcd(_, _)
Gcd(a, b) == IF b = 0 THEN a ELSE Gcd(b, a % b)

Lcm(a, b) == (a \div Gcd(a, b)) * b

RECURSIVE LcmOfDens(_)
LcmOfDens(vals) ==
    IF vals = <<>> THEN 1 ELSE Lcm(Head(vals).den, LcmOfDens(Tail(vals)))

RECURSIVE GcdOf(_)
GcdOf(xs) == IF xs = <<>> THEN 0 ELSE Gcd(Head(xs), GcdOf(Tail(xs)))

RECURSIVE SumOf(_)
SumOf(xs) == IF xs = <<>> THEN 0 ELSE Head(xs) + SumOf(Tail(xs))

RECURSIVE SumSqOf(_)
SumSqOf(xs) == IF xs = <<>> THEN 0 ELSE Head(xs) * Head(xs) + SumSqOf(Tail(xs))

\* The observations on one integer scale: the t statistic does not change
\* when every observation of both groups is multiplied by the same factor.
OnCommonScale(vals, all) ==
    LET l == LcmOfDens(all)
        raw(v) == v.num * (l \div v.den)
        g == GcdOf([i \in 1..Len(all) |-> raw(all[i])])
        unit == IF g = 0 THEN 1 ELSE g
    IN [i \in 1..Len(vals) |-> raw(vals[i]) \div unit]

\* 1000 * (two-sided 5% critical value of Student's t)^2, by degrees of
\* freedom: p < 0.05 exactly when t^2 exceeds it.
CritSq1000(df) ==
    <<161448, 18513, 10128, 7709, 6608, 5987, 5591, 5318>>[df]

NaNResult == [t |-> "nan", p |-> "nan"]

\* a, b: sequences of percentages (NULL reads as NaN and propagates).
\* pools: the installed scipy takes the variance of a single observation as
\* zero when it pools (otherwise that variance, and the result, is NaN).
\* The statistic is computed in exact arithmetic:
\*   t^2 = d^2 * df / ((q1*n2 + q2*n1) * (n1 + n2)),
\*   d = s1*n2 - s2*n1,  qk = nk * sum(x^2) - sk^2,  df = n1 + n2 - 2.
\* Result: the class of t and the class of p ("lt05": p < 0.05).
TTestInd(a, b, pools) ==
    LET n1 == Len(a)
        n2 == Len(b)
        df == n1 + n2 - 2
        hasNaN == \E i \in 1..n1 + n2 : (a \o b)[i].null
    IN IF n1 = 0 \/ n2 = 0 \/ hasNaN \/ df = 0 THEN NaNResult
       ELSE IF (n1 = 1 \/ n2 = 1) /\ ~pools THEN NaNResult
       ELSE LET xa == OnCommonScale(a, a \o b)
                xb == OnCommonScale(b, a \o b)
                d == SumOf(xa) * n2 - SumOf(xb) * n1
                q1 == n1 * SumSqOf(xa) - SumOf(xa) * SumOf(xa)
                q2 == n2 * SumSqOf(xb) - SumOf(xb) * SumOf(xb)
                den == (q1 * n2 + q2 * n1) * (n1 + n2)
            IN IF den = 0
               THEN IF d = 0 THEN NaNResult
                    ELSE [t |-> IF d > 0 THEN "+inf" ELSE "-inf", p |-> "lt05"]
               ELSE IF d = 0 THEN [t |-> "zero", p |-> "ge05"]
               ELSE [t |-> IF d > 0 THEN "pos" ELSE "neg",
                     p |-> IF d * d * df * 1000 > CritSq1000(df) * den
                           THEN "lt05" ELSE "ge05"]

\* One pass of the loop "for name, df in dfs" / "for pop in populations".
TTestOf(df, pools) == TTestInd(GroupOf(df, "yes"), GroupOf(df, "no"), pools)

\* 'Significant (p<0.05)': 'Yes' if p_value < 0.05 else 'No'
SignificantFlag(res) == IF res.p = "lt05" THEN "Yes" ELSE "No"

\* The populations the script's last print names as rejecting the null
\* hypothesis: a literal of the source.
ConcludingSentence == {"cd4_t_cell"}

(***************************************************************************)
(* Part 4: the baseline subset report, and the form question               *)
(***************************************************************************)
\* filter_condition
BaselineFilter(s, u) ==
    /\ u.treatment = "miraclib"
    /\ u.condition = "melanoma"
    /\ s.sample_type = "PBMC"
    /\ s.time_from_treatment = 0

\* FROM Samples JOIN Subjects ON Subjects.subject = Samples.subject
\* WHERE {filter_condition}: the joined (sample row, subject row) pairs.
BaselineJoin(samples, subjects) ==
    {j \in samples \X subjects :
        j[2].subject = j[1].subject /\ BaselineFilter(j[1], j[2])}

\* SELECT Samples.sample, Subjects.subject, Subjects.project,
\*        Subjects.response, Subjects.sex
BaselineRow(j) ==
    [sample |-> j[1].sample, subject |-> j[2].subject, project |-> j[2].project,
     response |-> j[2].response, sex |-> j[2].sex]

\* ORDER BY Samples.sample
RECURSIVE OrderBySample(_)
OrderBySample(J) ==
    IF J = {} THEN <<>>
    ELSE LET m == CHOOSE a \in J : \A b \in J : a[1].sample <= b[1].sample
         IN <<BaselineRow(m)>> \o OrderBySample(J \ {m})

\* The count of every joined row, with no GROUP BY: one row even when
\* nothing is joined.
SamplesPerProjectUngrouped(J) ==
    {[project |-> IF J = {} THEN "NULL" ELSE (CHOOSE j \in J : TRUE)[2].project,
      num_samples |-> Cardinality(J)]}

\* SELECT Subjects.project, COUNT(Samples.sample) ... GROUP BY Subjects.project
\* (SQL leaves the order of the groups open: the frame is kept as a set.)
SamplesPerProject(J) ==
    {[project |-> k, num_samples |-> Cardinality({j \in J : j[2].project = k})] :
        k \in {j[2].project : j \in J}}

\* A count of the joined rows of each response, not of their subjects.
SubjectsPerResponseBySample(J) ==
    {[response |-> k,
      num_subjects |-> Cardinality({j \in J : j[2].response = k})] :
        k \in {j[2].response : j \in J}}

\* SELECT Subjects.response, COUNT(DISTINCT Subjects.subject)
\* ... GROUP BY Subjects.response
SubjectsPerResponse(J) ==
    {[response |-> k,
      num_subjects |-> Cardinality({j[2].subject : j \in {i \in J : i[2].response = k}})] :
        k \in {j[2].response : j \in J}}

\* SELECT Subjects.sex, COUNT(DISTINCT Subjects.subject) ... GROUP BY Subjects.sex
SubjectsPerSex(J) ==
    {[sex |-> k,
      num_subjects |-> Cardinality({j[2].subject : j \in {i \in J : i[2].sex = k}})] :
        k \in {j[2].sex : j \in J}}

\* query1 .. query4 (the script) and baseline_samples .. subjects_per_sex
\* (the dashboard): the same four statements.
SubsetReport(samples, subjects) ==
    LET J == BaselineJoin(samples, subjects)
    IN [baseline_samples |-> OrderBySample(J),
        samples_per_project |-> SamplesPerProject(J),
        subjects_per_response |-> SubjectsPerResponse(J),
        subjects_per_sex |-> SubjectsPerSex(J)]

NoSubset ==
    [baseline_samples |-> <<>>, samples_per_project |-> {},
     subjects_per_response |-> {}, subjects_per_sex |-> {}]

\* WHERE clause of the form question (its double-quoted words name no
\* column, so SQLite reads them as text).
FormFilter(s, u) ==
    /\ u.condition = "melanoma"
    /\ u.response = "yes"
    /\ u.sex = "M"
    /\ s.time_from_treatment = 0

FormJoin(samples, subjects) ==
    {j \in samples \X subjects :
        j[2].subject = j[1].subject /\ FormFilter(j[1], j[2])}

RECURSIVE SumBCell(_)
SumBCell(J) ==
    IF J = {} THEN 0
    ELSE LET j == CHOOSE x \in J : TRUE IN j[1].b_cell + SumBCell(J \ {j})

\* round(sum / n, 2) in hundredths, ties to the even hundredth; the mean of
\* an empty column is NaN and round() hands NaN back.
RoundedMean(sum, n) ==
    IF n = 0 THEN [nan |-> TRUE, hundredths |-> 0]
    ELSE LET q == (100 * sum) \div n
             r == (100 * sum) % n
             up == 2 * r > n \/ (2 * r = n /\ q % 2 = 1)
         IN [nan |-> FALSE, hundredths |-> IF up THEN q + 1 ELSE q]

\* round(df["b_cell"].mean(), 2)
FormAnswer(samples, subjects) ==
    LET J == FormJoin(samples, subjects)
    IN RoundedMean(SumBCell(J), Cardinality(J))

NoAnswer == [nan |-> FALSE, hundredths |-> -1]

(***************************************************************************)
(* State of a fresh machine                                                *)
(***************************************************************************)
NoResult == [t |-> "none", p |-> "none"]

NoStats == [p \in PopSet |-> [t |-> "none", p |-> "none", significant |-> "none"]]

NoTables == [subjects_df |-> <<>>, samples_df |-> <<>>, cell_frequencies_df |-> <<>>]

NoRender == [tab |-> "none", tables |-> <<>>, figures |-> <<>>]

\* The file a script process is started on and the store it finds.
StartSnapshot ==
    [input |-> csv, schema |-> schema, staging |-> staging,
     Subjects |-> Subjects, Samples |-> Samples, loadedFrom |-> loadedFrom]

InitWith(files) ==
    /\ csv \in files
    /\ scipyPools \in BOOLEAN
    /\ pc = "idle"
    /\ exit = "none"
    /\ schema = {}
    /\ staging = <<>>
    /\ pending = <<>>
    /\ Subjects = {}
    /\ Samples = {}
    /\ loadedFrom = <<>>
    /\ before = [input |-> <<>>, schema |-> {}, staging |-> <<>>,
                 Subjects |-> {}, Samples |-> {}, loadedFrom |-> <<>>]
    /\ freqDf = <<>>
    /\ cellDfs = [p \in PopSet |-> <<>>]
    /\ idx = 1
    /\ ttest = [p \in PopSet |-> NoResult]
    /\ conclusion = {}
    /\ subset = NoSubset
    /\ formAnswer = NoAnswer
    /\ dashPc = "off"
    /\ dashCells = [p \in PopSet |-> <<>>]
    /\ dashStats = NoStats
    /\ dashTables = NoTables
    /\ dashSubset = NoSubset
    /\ dashQueries = 0
    /\ tab = "none"
    /\ rendered = NoRender

(***************************************************************************)
(* ImmuneDrugTrialAnalysis.py, statement by statement                      *)
(***************************************************************************)
\* python ImmuneDrugTrialAnalysis.py: connect, PRAGMA foreign_keys = ON
RunScript ==
    /\ pc = "idle"
    /\ dashPc = "off"
    /\ pc' = "drop"
    /\ exit' = "running"
    /\ before' = StartSnapshot
    /\ freqDf' = <<>>
    /\ cellDfs' = [p \in PopSet |-> <<>>]
    /\ idx' = 1
    /\ ttest' = [p \in PopSet |-> NoResult]
    /\ conclusion' = {}
    /\ subset' = NoSubset
    /\ formAnswer' = NoAnswer
    /\ UNCHANGED <<csv, scipyPools, storeVars, dashVars>>

\* The tables the first executescript leaves: the three DROP TABLE IF EXISTS
\* and the three CREATE TABLE, each committed as it runs.
DroppedSchema(sch) == sch \ {StagingT, SamplesT, SubjectsT}
CreatedSchema(sch) == DroppedSchema(sch) \cup {StagingT, SubjectsT, SamplesT}
\* Rows of a table that is created only if it is missing, never dropped.
RowsKept(rows) == rows

RowsAfterDrop(rows) == {}

DropAndCreate ==
    /\ pc = "drop"
    /\ schema' = CreatedSchema(schema)
    /\ staging' = <<>>
    /\ Subjects' = RowsAfterDrop(Subjects)
    /\ Samples' = RowsAfterDrop(Samples)
    /\ loadedFrom' = <<>>
    /\ pc' = "stage"
    /\ UNCHANGED <<csv, scipyPools, exit, pending, before, scriptVars, dashVars>>

\* A row executemany cannot bind: its cells are not the 15 of the statement.
Malformed(r) == r.ncols # NumColumns

\* Index of the first row executemany raises on (0: none).
FirstMalformed(rows) ==
    IF \E i \in 1..Len(rows) : Malformed(rows[i])
    THEN CHOOSE i \in 1..Len(rows) :
            /\ Malformed(rows[i])
            /\ \A j \in 1..i - 1 : ~Malformed(rows[j])
    ELSE 0

\* executemany(INSERT INTO countCSVStaging ...): the rows go into the
\* transaction the module opens before the first INSERT.  A malformed row
\* raises sqlite3.ProgrammingError; nothing catches it, the process ends and
\* the open transaction, with the rows inserted so far, is rolled back.
StageCsv ==
    /\ pc = "stage"
    /\ LET k == FirstMalformed(csv)
       IN IF k # 0
          THEN /\ pending' = <<>>
               /\ pc' = "idle"
               /\ exit' = "ProgrammingError"
          ELSE /\ pending' = [i \in 1..Len(csv) |-> StagedRow(csv[i])]
               /\ pc' = "split"
               /\ exit' = exit
    /\ UNCHANGED <<csv, scipyPools, schema, staging, Subjects, Samples,
                   loadedFrom, before, scriptVars, dashVars>>

\* The second executescript: it first commits the open transaction, then
\* runs its statements one by one, each committed as it ends.  A statement
\* that violates a constraint changes nothing itself, raises
\* sqlite3.IntegrityError and ends the script and the process.
SplitTables ==
    /\ pc = "split"
    /\ LET stg == staging \o pending
           subj == SelectDistinctSubjects(stg)
           samp == SelectDistinctSamples(stg)
       IN /\ pending' = <<>>
          /\ IF ~SubjectKeyOk(Subjects, subj)
             THEN /\ staging' = stg
                  /\ UNCHANGED <<Subjects, Samples, schema>>
                  /\ pc' = "idle"
                  /\ exit' = "IntegrityError"
             ELSE IF ~(SampleKeyOk(Samples, samp)
                       /\ ForeignKeyOk(Subjects \cup subj, samp))
             THEN /\ staging' = stg
                  /\ Subjects' = Subjects \cup subj
                  /\ UNCHANGED <<Samples, schema>>
                  /\ pc' = "idle"
                  /\ exit' = "IntegrityError"
             ELSE /\ Subjects' = Subjects \cup subj
                  /\ Samples' = Samples \cup samp
                  /\ staging' = <<>>
                  /\ schema' = schema \ {StagingT}
                  /\ pc' = "commit"
                  /\ exit' = exit
    /\ UNCHANGED <<csv, scipyPools, loadedFrom, before, scriptVars, dashVars>>

\* conn.commit(); conn.close()
CommitLoad ==
    /\ pc = "commit"
    /\ loadedFrom' = <<csv>>
    /\ pc' = "view"
    /\ UNCHANGED <<csv, scipyPools, exit, schema, staging, pending, Subjects,
                   Samples, before, scriptVars, dashVars>>

\* CREATE VIEW IF NOT EXISTS SampleCellFrequencies
CreateView ==
    /\ pc = "view"
    /\ schema' = schema \cup {ViewT}
    /\ pc' = "freq"
    /\ UNCHANGED <<csv, scipyPools, exit, staging, pending, Subjects, Samples,
                   loadedFrom, before, scriptVars, dashVars>>

\* df = SELECT * FROM SampleCellFrequencies ORDER BY sample, population
ReadFrequencies ==
    /\ pc = "freq"
    /\ freqDf' = OrderBySamplePopulation(ViewRows(Samples))
    /\ pc' = "cohort"
    /\ UNCHANGED <<csv, scipyPools, exit, storeVars, before, cellDfs, idx,
                   ttest, conclusion, subset, formAnswer, dashVars>>

\* bCellDf ... monocyteCellDf.  (The box plots drawn from them next are
\* figures on the screen: they change nothing the script computes.)
CohortQueries ==
    /\ pc = "cohort"
    /\ cellDfs' = [p \in PopSet |-> GetCellData(p, Samples, Subjects)]
    /\ idx' = 1
    /\ pc' = "ttest"
    /\ UNCHANGED <<csv, scipyPools, exit, storeVars, before, freqDf, ttest,
                   conclusion, subset, formAnswer, dashVars>>

\* One pass of "for name, df in dfs": the t-test and its three prints.
TTestStep ==
    /\ pc = "ttest"
    /\ ttest' = [ttest EXCEPT ![Populations[idx]] =
                    TTestOf(cellDfs[Populations[idx]], scipyPools)]
    /\ IF idx = Len(Populations)
       THEN pc' = "conclude" /\ idx' = idx
       ELSE pc' = "ttest" /\ idx' = idx + 1
    /\ UNCHANGED <<csv, scipyPools, exit, storeVars, before, freqDf, cellDfs,
                   conclusion, subset, formAnswer, dashVars>>

\* conn.close() and the print of the concluding sentence
Conclude ==
    /\ pc = "conclude"
    /\ conclusion' = ConcludingSentence
    /\ pc' = "subset"
    /\ UNCHANGED <<csv, scipyPools, exit, storeVars, before, freqDf, cellDfs,
                   idx, ttest, subset, formAnswer, dashVars>>

\* Part 4: connect, the four pd.read_sql and their prints, conn.close()
SubsetQueries ==
    /\ pc = "subset"
    /\ subset' = SubsetReport(Samples, Subjects)
    /\ pc' = "form"
    /\ UNCHANGED <<csv, scipyPools, exit, storeVars, before, freqDf, cellDfs,
                   idx, ttest, conclusion, formAnswer, dashVars>>

\* The form question: connect, pd.read_sql, the print of the rounded mean,
\* conn.close(); the script ends.
FormQuestion ==
    /\ pc = "form"
    /\ formAnswer' = FormAnswer(Samples, Subjects)
    /\ pc' = "idle"
    /\ exit' = "ok"
    /\ UNCHANGED <<csv, scipyPools, storeVars, before, freqDf, cellDfs, idx,
                   ttest, conclusion, subset, dashVars>>

Script ==
    \/ RunScript
    \/ DropAndCreate
    \/ StageCsv
    \/ SplitTables
    \/ CommitLoad
    \/ CreateView
    \/ ReadFrequencies
    \/ CohortQueries
    \/ TTestStep
    \/ Conclude
    \/ SubsetQueries
    \/ FormQuestion

(***************************************************************************)
(* ImmuneDrugTrialDashboard.py: the module's start-up computation and the  *)
(* tab callback                                                            *)
(***************************************************************************)
\* A scan of Subjects, in primary-key order.
RECURSIVE ScanSubjects(_)
ScanSubjects(S) ==
    IF S = {} THEN <<>>
    ELSE LET m == CHOOSE a \in S : \A b \in S : a.subject <= b.subject
         IN <<m>> \o ScanSubjects(S \ {m})

\* subjects_df, samples_df, cell_frequencies_df
StartupTables(samples, subjects) ==
    [subjects_df |-> ScanSubjects(subjects),
     samples_df |-> ScanSamples(samples),
     cell_frequencies_df |-> OrderBySamplePopulation(ViewRows(samples))]

\* pd.read_sql calls of a start-up that reaches conn.close(): the three
\* tables, get_cell_data once per population, the four baseline frames.
StartupQueries == 3 + Len(Populations) + 4

\* pd.read_sql calls that return before the one that raises: the tables
\* are read in the order Subjects, Samples, SampleCellFrequencies.
QueriesBeforeFailure(sch) ==
    IF SubjectsT \notin sch THEN 0
    ELSE IF SamplesT \notin sch THEN 1
    ELSE 2

Tabs == {"tab-1", "tab-2", "tab-3", "tab-4"}

\* A callback that runs get_cell_data again for the box plots.
RenderQueriesPerPopulation(t) == IF t = "tab-3" THEN Len(Populations) ELSE 0

\* pd.read_sql calls of one render_content call: its branches read the
\* module's data frames only (the connection was closed at start-up).
RenderQueries(t) == 0

\* render_content(tab): the data frames shown as DataTables and the data
\* frames handed to plotly for the figures.
RenderContent(t, tables, cells, stats, sub) ==
    CASE t = "tab-1" ->
            [tab |-> t, tables |-> <<tables.subjects_df, tables.samples_df>>,
             figures |-> <<>>]
      [] t = "tab-2" ->
            [tab |-> t, tables |-> <<tables.cell_frequencies_df>>,
             figures |-> <<>>]
      [] t = "tab-3" ->
            [tab |-> t, tables |-> <<stats>>,
             figures |-> [i \in 1..Len(Populations) |-> cells[Populations[i]]]]
      [] t = "tab-4" ->
            [tab |-> t, tables |-> <<sub.baseline_samples>>,
             figures |-> <<sub.samples_per_project, sub.subjects_per_response,
                           sub.subjects_per_sex>>]

\* cell_data = {pop: get_cell_data(pop) for pop in populations}
CellData(samples, subjects) ==
    [p \in PopSet |-> GetCellData(p, samples, subjects)]

\* stats_results: one entry per population.
StatsResults(cells, pools) ==
    [p \in PopSet |->
        LET res == TTestOf(cells[p], pools)
        IN [t |-> res.t, p |-> res.p, significant |-> SignificantFlag(res)]]

\* python ImmuneDrugTrialDashboard.py.  pd.read_sql raises on a table or
\* view the store lacks, and the process ends before the server starts.
DashStart ==
    /\ pc = "idle"
    /\ dashPc = "off"
    /\ IF {SubjectsT, SamplesT, ViewT} \subseteq schema
       THEN /\ dashPc' = "up"
            /\ dashTables' = StartupTables(Samples, Subjects)
            /\ dashCells' = CellData(Samples, Subjects)
            /\ dashStats' = StatsResults(CellData(Samples, Subjects), scipyPools)
            /\ dashSubset' = SubsetReport(Samples, Subjects)
            /\ dashQueries' = StartupQueries
       ELSE /\ dashPc' = "failed"
            /\ dashTables' = NoTables
            /\ dashCells' = [p \in PopSet |-> <<>>]
            /\ dashStats' = NoStats
            /\ dashSubset' = NoSubset
            /\ dashQueries' = QueriesBeforeFailure(schema)
    /\ tab' = "none"
    /\ rendered' = NoRender
    /\ UNCHANGED <<csv, scipyPools, pc, exit, storeVars, before, scriptVars>>

\* The Tabs component takes the value t (the page's first load sends
\* 'tab-1') and Dash calls render_content(t).
TabEvent ==
    /\ dashPc = "up"
    /\ \E t \in Tabs :
          /\ tab' = t
          /\ rendered' = RenderContent(t, dashTables, dashCells, dashStats,
                                       dashSubset)
          /\ dashQueries' = dashQueries + RenderQueries(t)
    /\ UNCHANGED <<csv, scipyPools, pc, exit, storeVars, before, scriptVars,
                   dashPc, dashCells, dashStats, dashTables, dashSubset>>

\* The dashboard process is stopped (or its failure is dismissed).
DashStop ==
    /\ pc = "idle"
    /\ dashPc # "off"
    /\ dashPc' = "off"
    /\ dashCells' = [p \in PopSet |-> <<>>]
    /\ dashStats' = NoStats
    /\ dashTables' = NoTables
    /\ dashSubset' = NoSubset
    /\ dashQueries' = 0
    /\ tab' = "none"
    /\ rendered' = NoRender
    /\ UNCHANGED <<csv, scipyPools, pc, exit, storeVars, before, scriptVars>>

Dashboard == DashStart \/ TabEvent \/ DashStop

(***************************************************************************)
(* Inputs: the CSV files the specifications draw from                      *)
(***************************************************************************)
\* One CSV row; counts = <<b_cell, cd8_t_cell, cd4_t_cell, nk_cell, monocyte>>.
Row(subj, samp, age, treat, cond, resp, stype, time, counts, n) ==
    [ncols |-> n, project |-> "prj1", subject |-> subj, condition |-> cond,
     age |-> age, sex |-> "M", treatment |-> treat, response |-> resp,
     sample |-> samp, sample_type |-> stype, time_from_treatment |-> time,
     b_cell |-> counts[1], cd8_t_cell |-> counts[2], cd4_t_cell |-> counts[3],
     nk_cell |-> counts[4], monocyte |-> counts[5]]

CohortRow(subj, samp, age, counts, n) ==
    Row(subj, samp, age, "miraclib", "melanoma", "yes", "PBMC", 0, counts, n)

Even == <<1, 1, 1, 1, 1>>

\* All files of at most n rows drawn from rows.
FilesOf(rows, n) == UNION {[1..k -> rows] : k \in 0..n}

\* Load: a good row, a second sample of its subject, the same subject with
\* another age, another subject under the first sample code and with text
\* for an age, and a row that lacks its last cell.
LoadRows ==
    {CohortRow(1, 1, "30", Even, NumColumns),
     CohortRow(1, 2, "30", Even, NumColumns),
     CohortRow(1, 3, "31", Even, NumColumns),
     CohortRow(2, 1, "abc", Even, NumColumns),
     CohortRow(1, 1, "30", Even, NumColumns - 1)}

LoadFiles == FilesOf(LoadRows, MaxLoadRows)

ReplacementFiles == FilesOf(LoadRows, MaxReplaceRows)

\* Frequencies: a first sample with every combination of counts up to
\* MaxCount, then samples with no cells at all or ten of each.
CountVectors == [1..5 -> 0..MaxCount]

FreqExtraRows ==
    {CohortRow(1, 2, "30", <<0, 0, 0, 0, 0>>, NumColumns),
     CohortRow(1, 3, "30", <<10, 10, 10, 10, 10>>, NumColumns)}

FreqFiles ==
    {<<CohortRow(1, 1, "30", c, NumColumns)>> \o rest :
        c \in CountVectors, rest \in FilesOf(FreqExtraRows, MaxExtraRows)}

\* Cohort: five subjects (a responder, a non-responder, a subject with
\* another response label, one on another treatment, one with another
\* condition); each row is a sample of one of them, PBMC at day 0 or 7 or
\* whole blood; row i carries sample code i.
SubjectRow(subj, samp, stype, time, counts) ==
    CASE subj = 1 -> Row(1, samp, "30", "miraclib", "melanoma", "yes", stype, time, counts, NumColumns)
      [] subj = 2 -> Row(2, samp, "30", "miraclib", "melanoma", "no", stype, time, counts, NumColumns)
      [] subj = 3 -> Row(3, samp, "30", "miraclib", "melanoma", "unknown", stype, time, counts, NumColumns)
      [] subj = 4 -> Row(4, samp, "30", "phauximab", "melanoma", "yes", stype, time, counts, NumColumns)
      [] subj = 5 -> Row(5, samp, "30", "miraclib", "carcinoma", "no", stype, time, counts, NumColumns)

SampleKinds ==
    {<<"PBMC", 0, Even>>, <<"PBMC", 7, <<2, 1, 1, 1, 0>> >>, <<"WB", 0, Even>>}

CohortTemplates == (1..5) \X SampleKinds

FromTemplates(t) ==
    [i \in 1..Len(t) |-> SubjectRow(t[i][1], i, t[i][2][1], t[i][2][2], t[i][2][3])]

CohortFiles == {FromTemplates(t) : t \in FilesOf(CohortTemplates, MaxCohortRows)}

\* T-test: at least one PBMC sample of the responder or of the
\* non-responder, with b_cell at 0, 1 or 5 of 5 cells.
TTestKinds ==
    {<<"PBMC", 0, Even>>, <<"PBMC", 0, <<0, 2, 1, 1, 1>> >>,
     <<"PBMC", 0, <<5, 0, 0, 0, 0>> >>}

TTestTemplates == (1..2) \X TTestKinds

TTestFiles ==
    {FromTemplates(t) : t \in FilesOf(TTestTemplates, MaxTTestRows) \ {<<>>}}

\* Subset: four subjects in two projects (a male responder and a female
\* non-responder of prj1, a female responder of prj2, a male responder of
\* prj2 on another treatment); each row is a sample of one of them, PBMC at
\* day 0 or 7 or whole blood at day 0; row i carries sample code i and i
\* B cells.
SubsetRow(subj, samp, stype, time) ==
    LET counts == <<samp, 1, 1, 1, 1>>
        r(treat, resp) ==
            Row(subj, samp, "30", treat, "melanoma", resp, stype, time, counts,
                NumColumns)
    IN CASE subj = 1 -> [r("miraclib", "yes") EXCEPT !.project = "prj1", !.sex = "M"]
         [] subj = 2 -> [r("miraclib", "no") EXCEPT !.project = "prj1", !.sex = "F"]
         [] subj = 3 -> [r("miraclib", "yes") EXCEPT !.project = "prj2", !.sex = "F"]
         [] subj = 4 -> [r("phauximab", "yes") EXCEPT !.project = "prj2", !.sex = "M"]

SubsetKinds == {<<"PBMC", 0>>, <<"PBMC", 7>>, <<"WB", 0>>}

SubsetTemplates == (1..4) \X SubsetKinds

SubsetFiles ==
    {[i \in 1..Len(t) |-> SubsetRow(t[i][1], i, t[i][2][1], t[i][2][2])] :
        t \in FilesOf(SubsetTemplates, MaxSubsetRows)}

\* cell-count.csv is replaced once the store holds the load of another.
ReplaceCsv ==
    /\ pc = "idle"
    /\ dashPc = "off"
    /\ loadedFrom # <<>>
    /\ csv' \in ReplacementFiles \ {csv}
    /\ UNCHANGED <<scipyPools, pc, exit, storeVars, before, scriptVars, dashVars>>

(***************************************************************************)
(* Specifications                                                          *)
(***************************************************************************)
Init == InitWith(LoadFiles)
Next == Script \/ Dashboard \/ ReplaceCsv
Spec == Init /\ [][Next]_vars

NextAnalysis == Script \/ Dashboard

InitFreq == InitWith(FreqFiles)
SpecFreq == InitFreq /\ [][NextAnalysis]_vars

InitCohort == InitWith(CohortFiles)
SpecCohort == InitCohort /\ [][NextAnalysis]_vars

InitTTest == InitWith(TTestFiles)
SpecTTest == InitTTest /\ [][NextAnalysis]_vars

InitSubset == InitWith(SubsetFiles)
SpecSubset == InitSubset /\ [][NextAnalysis]_vars

(***************************************************************************)
(* Properties                                                              *)
(***************************************************************************)
\* The script has read the frequency view and the store is as it was read.
FreqReadDone ==
    \/ pc \in {"cohort", "ttest", "conclude", "subset", "form"}
    \/ pc = "idle" /\ exit = "ok"

FiveCounts(s) ==
    s.b_cell + s.cd8_t_cell + s.cd4_t_cell + s.nk_cell + s.monocyte

ColumnCount(s, p) ==
    IF p = "b_cell" THEN s.b_cell
    ELSE IF p = "cd8_t_cell" THEN s.cd8_t_cell
    ELSE IF p = "cd4_t_cell" THEN s.cd4_t_cell
    ELSE IF p = "nk_cell" THEN s.nk_cell
    ELSE s.monocyte

\* Records of the frequency data frame for one sample code.
RecordsOf(code) == SelectSeq(freqDf, LAMBDA f : f.sample = code)

\* Exact sum of a sequence of non-NULL rationals, in lowest terms.
RatAdd(x, y) ==
    LET n == x.num * y.den + y.num * x.den
        d == x.den * y.den
        g == Gcd(IF n < 0 THEN -n ELSE n, d)
    IN [num |-> n \div g, den |-> d \div g]

RECURSIVE RatSum(_)
RatSum(fs) ==
    IF fs = <<>> THEN [num |-> 0, den |-> 1]
    ELSE RatAdd([num |-> Head(fs).percentage.num, den |-> Head(fs).percentage.den],
                RatSum(Tail(fs)))

\* C1: for every sample whose five counts sum to a total > 0, the five
\* percentages the view yields for it are defined and sum to exactly 100.
C1_PercentagesSumTo100 ==
    FreqReadDone =>
        \A s \in Samples :
            FiveCounts(s) > 0 =>
                LET fs == RecordsOf(s.sample)
                IN /\ Len(fs) = 5
                   /\ \A i \in 1..Len(fs) : ~fs[i].percentage.null
                   /\ RatSum(fs) = [num |-> 100, den |-> 1]

C1_Witness ==
    /\ FreqReadDone
    /\ \E s \in Samples :
          /\ FiveCounts(s) = 3
          /\ s.b_cell = 0
          /\ s.monocyte = 1
          /\ Len(RecordsOf(s.sample)) = 5

\* C2: the frequency data holds exactly one record per (sample, population)
\* pair of the loaded samples and the five populations and no other record;
\* each record carries the sum of the sample's five counts as total_count,
\* the population's own count as count and, the total not being zero,
\* percentage = 100 * count / total_count; counts of ten each give 20.
C2_OneRecordPerPair ==
    FreqReadDone =>
        /\ Len(freqDf) = 5 * Cardinality(Samples)
        /\ \A i \in 1..Len(freqDf) :
              /\ freqDf[i].population \in PopSet
              /\ \E s \in Samples :
                    s.sample = freqDf[i].sample /\ s.subject = freqDf[i].subject
        /\ \A s \in Samples : \A p \in PopSet :
              LET hits == {i \in 1..Len(freqDf) :
                              freqDf[i].sample = s.sample /\ freqDf[i].population = p}
              IN /\ Cardinality(hits) = 1
                 /\ \A i \in hits :
                       /\ freqDf[i].total_count = FiveCounts(s)
                       /\ freqDf[i].count = ColumnCount(s, p)
                       /\ FiveCounts(s) # 0 =>
                             /\ ~freqDf[i].percentage.null
                             /\ freqDf[i].percentage.num * FiveCounts(s)
                                   = 100 * ColumnCount(s, p) * freqDf[i].percentage.den
                       /\ (\A q \in PopSet : ColumnCount(s, q) = 10) =>
                             freqDf[i].percentage.num = 20 * freqDf[i].percentage.den

C2_Witness ==
    /\ FreqReadDone
    /\ Len(freqDf) = 10
    /\ \E s \in Samples : \A q \in PopSet : ColumnCount(s, q) = 10
    /\ \E s \in Samples : s.cd8_t_cell = 1 /\ s.cd4_t_cell = 0

\* C5: a sample whose counts sum to zero raises nothing in the frequency
\* derivation: the view is read, the sample's five records carry a NULL
\* percentage (the one policy), and the records of every other sample carry
\* their defined percentage.
C5_ZeroTotalIsNull ==
    FreqReadDone =>
        \A s \in Samples :
            LET fs == RecordsOf(s.sample)
            IN /\ Len(fs) = 5
               /\ \A i \in 1..Len(fs) :
                     IF FiveCounts(s) = 0
                     THEN fs[i].percentage = Null
                     ELSE /\ ~fs[i].percentage.null
                          /\ fs[i].percentage.num * FiveCounts(s)
                                = 100 * fs[i].count * fs[i].percentage.den

C5_Witness ==
    /\ pc = "idle"
    /\ exit = "ok"
    /\ \E s \in Samples : FiveCounts(s) = 0 /\ Len(RecordsOf(s.sample)) = 5
    /\ \E s \in Samples : FiveCounts(s) = 2

\* The load of the running (or last) script process is over.
LoadOver ==
    \/ pc \in {"view", "freq", "cohort", "ttest", "conclude", "subset", "form"}
    \/ pc = "idle" /\ exit # "none"

\* ... and it ended in an error.
LoadFailed == pc = "idle" /\ exit \in {"ProgrammingError", "IntegrityError"}

\* ... and it was committed.
LoadCommitted == LoadOver /\ ~LoadFailed

StoreUnchanged ==
    /\ schema = before.schema
    /\ staging = before.staging
    /\ Subjects = before.Subjects
    /\ Samples = before.Samples

\* C3: a load that fails commits nothing: the store is left as the load
\* found it (no table populated, emptied, created or left over).
C3_FailedLoadCommitsNothing == LoadFailed => StoreUnchanged

HasMalformedRow(rows) == \E i \in 1..Len(rows) : rows[i].ncols # 15

HasWronglyTypedValue(rows) ==
    \E i \in 1..Len(rows) : rows[i].age \notin {"30", "31"}

HasConflictingSubject(rows) ==
    \E i, j \in 1..Len(rows) :
        /\ rows[i].subject = rows[j].subject
        /\ \/ rows[i].project # rows[j].project
           \/ rows[i].condition # rows[j].condition
           \/ rows[i].age # rows[j].age
           \/ rows[i].sex # rows[j].sex
           \/ rows[i].treatment # rows[j].treatment
           \/ rows[i].response # rows[j].response

HasConflictingSample(rows) ==
    \E i, j \in 1..Len(rows) :
        /\ rows[i].sample = rows[j].sample
        /\ \/ rows[i].subject # rows[j].subject
           \/ rows[i].sample_type # rows[j].sample_type
           \/ rows[i].time_from_treatment # rows[j].time_from_treatment
           \/ \E p \in PopSet : ColumnCount(rows[i], p) # ColumnCount(rows[j], p)

\* C4: a file with a row of the wrong column count, with a wrongly typed
\* value or with one subject code under conflicting attributes is never
\* loaded: the load aborts before the commit.  (A sample row whose subject
\* is absent from Subjects cannot come out of one staging table.)
C4_LoadErrorsAreFatal ==
    (LoadOver /\ (\/ HasMalformedRow(before.input)
                  \/ HasWronglyTypedValue(before.input)
                  \/ HasConflictingSubject(before.input)))
        => LoadFailed

\* C9: loading the CSV whose committed load the store already holds ends
\* committed again, with the same Subjects and Samples rows as before.
C9_SecondLoadSameRows ==
    (LoadOver /\ before.loadedFrom = <<before.input>>) =>
        /\ LoadCommitted
        /\ loadedFrom = <<before.input>>
        /\ Subjects = before.Subjects
        /\ Samples = before.Samples
        /\ Cardinality(Subjects) = Cardinality(before.Subjects)
        /\ Cardinality(Samples) = Cardinality(before.Samples)

C9_Witness ==
    /\ pc = "idle"
    /\ exit = "ok"
    /\ before.loadedFrom = <<before.input>>
    /\ Len(before.input) = 2
    /\ Cardinality(Samples) = 2
    /\ Cardinality(Subjects) = 1

\* C10 as claimed: a load run on a store that holds rows of an earlier load
\* does not complete.
C10_ReloadRaises ==
    (LoadOver /\ before.Samples # {} /\ before.Subjects # {}) => LoadFailed

\* C10 as amended: the load drops and recreates the tables itself, so on a
\* store that holds rows of an earlier load it raises a key violation only
\* for a file that carries one subject code or one sample code on two
\* different rows, fails otherwise only on a malformed row, and when it
\* completes the tables hold rows of the new file alone.
C10_ReloadDropsFirst ==
    (LoadOver /\ before.Samples # {} /\ before.Subjects # {}) =>
        /\ (pc = "idle" /\ exit = "IntegrityError") =>
              \/ HasConflictingSubject(before.input)
              \/ HasConflictingSample(before.input)
        /\ (pc = "idle" /\ exit = "ProgrammingError") =>
              HasMalformedRow(before.input)
        /\ LoadCommitted =>
              /\ \A u \in Subjects : \E i \in 1..Len(before.input) :
                    before.input[i].subject = u.subject
              /\ \A a \in Samples : \E i \in 1..Len(before.input) :
                    /\ before.input[i].sample = a.sample
                    /\ before.input[i].subject = a.subject

C10_Witness ==
    /\ pc = "idle"
    /\ exit = "ok"
    /\ before.Samples # {}
    /\ before.loadedFrom # <<before.input>>
    /\ Samples # {}
    /\ Samples # before.Samples

\* The script's cohort data frames are filled and the store is as queried.
CohortRead ==
    \/ pc \in {"ttest", "conclude", "subset", "form"}
    \/ pc = "idle" /\ exit = "ok"

\* Samples of the cohort whose subject carries the response label.
CohortSamples(label) ==
    {s \in Samples :
        /\ s.sample_type = "PBMC"
        /\ \E u \in Subjects :
              /\ u.subject = s.subject
              /\ u.treatment = "miraclib"
              /\ u.condition = "melanoma"
              /\ u.response = label}

\* The percentage of the frequency record of sample s and population p.
RecordPercentage(s, p) ==
    SqlDivide(100 * ColumnCount(s, p), FiveCounts(s))

Occurrences(group, v) == Cardinality({i \in 1..Len(group) : group[i] = v})

\* group holds the percentage of each sample of the set once, and no more.
IsGroupOf(group, set, p) ==
    /\ Len(group) = Cardinality(set)
    /\ \A s \in set :
          Occurrences(group, RecordPercentage(s, p))
             = Cardinality({x \in set : RecordPercentage(x, p) = RecordPercentage(s, p)})

GroupsAreCohort(dfs) ==
    \A p \in PopSet :
        /\ IsGroupOf(GroupOf(dfs[p], "yes"), CohortSamples("yes"), p)
        /\ IsGroupOf(GroupOf(dfs[p], "no"), CohortSamples("no"), p)

\* C7: for each population the two groups handed to the t-test, by the
\* script and by the dashboard, are the percentages of the frequency records
\* of that population whose sample is PBMC and whose subject is a melanoma
\* subject on miraclib with response 'yes' (responders) or 'no'
\* (non-responders): each such record once, at any time_from_treatment, and
\* no other record.
C7_GroupsAreTheCohort ==
    /\ CohortRead => GroupsAreCohort(cellDfs)
    /\ dashPc = "up" => GroupsAreCohort(dashCells)

C7_Witness ==
    /\ pc = "idle"
    /\ exit = "ok"
    /\ dashPc = "up"
    /\ Cardinality(Samples) = 2
    /\ Cardinality(CohortSamples("yes")) = 1
    /\ \E s \in CohortSamples("yes") : s.time_from_treatment = 7
    /\ \E s \in Samples : s.sample_type = "WB"
    /\ Len(GroupOf(cellDfs["monocyte"], "yes")) = 1
    /\ Len(GroupOf(dashCells["monocyte"], "yes")) = 1

InsufficientData == [t |-> "insufficient data", p |-> "insufficient data"]

SmallGroup(df) == Len(GroupOf(df, "yes")) < 2 \/ Len(GroupOf(df, "no")) < 2

\* C6: a population with fewer than 2 observations in either response group
\* is reported with an insufficient-data outcome, not with a NaN statistic
\* and NaN p-value.
C6_SmallGroupIsReported ==
    \A p \in PopSet :
        (ttest[p] # NoResult /\ SmallGroup(cellDfs[p])) =>
            ttest[p] = InsufficientData

\* C8: each population is reported as significant exactly when the p-value
\* computed in the run is < 0.05: by the script's concluding sentence and by
\* the dashboard's 'Significant (p<0.05)' column.
C8_SignificanceFollowsPValue ==
    /\ (pc = "idle" /\ exit = "ok") =>
          \A p \in PopSet : p \in conclusion <=> ttest[p].p = "lt05"
    /\ dashPc = "up" =>
          \A p \in PopSet :
              dashStats[p].significant = "Yes" <=> dashStats[p].p = "lt05"

\* The dashboard's column alone does follow its p-value, and the bounds reach
\* runs in which the t statistic is finite.
DashboardFlagFollowsPValue ==
    dashPc = "up" =>
        \A p \in PopSet :
            dashStats[p].significant = "Yes" <=> dashStats[p].p = "lt05"

FiniteSignificantReached ==
    \E p \in PopSet : ttest[p].p = "lt05" /\ ttest[p].t \in {"pos", "neg"}

FiniteInsignificantReached ==
    \E p \in PopSet : ttest[p].p = "ge05" /\ ttest[p].t \in {"pos", "neg"}

\* Positions of the script after the load's commit: the next step is one of
\* view creation, frequency read, cohort queries, t-tests, concluding
\* sentence, subset report, form question.
AfterCommit == {"view", "freq", "cohort", "ttest", "conclude", "subset", "form"}

\* C11: once the load has committed no later stage changes the persisted
\* rows: every step of the script after the commit and the dashboard's
\* start-up leave Subjects and Samples as they are, and a tab event leaves
\* Subjects, Samples and every data frame computed at start-up as they are
\* and runs no query.
C11_LaterStagesWriteNothing ==
    [][/\ pc \in AfterCommit => UNCHANGED <<Subjects, Samples>>
       /\ (dashPc = "off" /\ dashPc' # "off") => UNCHANGED <<Subjects, Samples>>
       /\ (dashPc = "up" /\ dashPc' = "up") =>
             /\ UNCHANGED <<Subjects, Samples>>
             /\ UNCHANGED <<dashTables, dashCells, dashStats, dashSubset>>
             /\ dashQueries' = dashQueries]_vars

C11_Witness ==
    /\ pc = "idle"
    /\ exit = "ok"
    /\ loadedFrom = <<csv>>
    /\ formAnswer # NoAnswer
    /\ Cardinality(Samples) = 2
    /\ dashPc = "up"
    /\ tab = "tab-3"
    /\ rendered.tab = "tab-3"
    /\ Len(rendered.figures) = 5
    /\ Len(dashTables.samples_df) = 2
    /\ Len(dashSubset.baseline_samples) = 1
    /\ dashQueries = 12

\* The script has run its four subset queries and the store is as queried.
SubsetRead == pc = "form" \/ (pc = "idle" /\ exit = "ok")

\* Samples that pass the baseline filter with their subject.
BaselineSampleSet ==
    {s \in Samples :
        /\ s.sample_type = "PBMC"
        /\ s.time_from_treatment = 0
        /\ \E u \in Subjects :
              /\ u.subject = s.subject
              /\ u.treatment = "miraclib"
              /\ u.condition = "melanoma"}

EmptyReport(r) ==
    /\ r.baseline_samples = <<>>
    /\ r.samples_per_project = {}
    /\ r.subjects_per_response = {}
    /\ r.subjects_per_sex = {}

\* C12: when no sample passes the baseline filter, each of the four subset
\* queries answers with no row, in the script and in the dashboard, and
\* none raises: the script goes on to its end and the dashboard, its tables
\* and view being there, comes up.
C12_EmptyBaselineGivesEmptyReport ==
    BaselineSampleSet = {} =>
        /\ SubsetRead => (EmptyReport(subset) /\ exit \in {"running", "ok"})
        /\ (dashPc # "off" /\ {SubjectsT, SamplesT, ViewT} \subseteq schema) =>
              (dashPc = "up" /\ EmptyReport(dashSubset))

C12_Witness ==
    /\ pc = "idle"
    /\ exit = "ok"
    /\ dashPc = "up"
    /\ tab = "tab-4"
    /\ BaselineSampleSet = {}
    /\ Cardinality(Samples) = 2
    /\ \E s \in CohortSamples("yes") : s.time_from_treatment = 7
    /\ \E s \in Samples : s.sample_type = "WB" /\ s.time_from_treatment = 0
    /\ EmptyReport(subset)
    /\ EmptyReport(dashSubset)

RECURSIVE SumNumSubjects(_)
SumNumSubjects(G) ==
    IF G = {} THEN 0
    ELSE LET g == CHOOSE x \in G : TRUE
         IN g.num_subjects + SumNumSubjects(G \ {g})

\* One report, against the rows it lists and the store.
ReportConsistent(r) ==
    LET rows == r.baseline_samples
        I == 1..Len(rows)
        SubjectsAmong(S) == {rows[i].subject : i \in S}
    IN /\ Len(rows) = Cardinality(BaselineSampleSet)
       /\ \A i, j \in I : i < j => rows[i].sample < rows[j].sample
       /\ \A s \in BaselineSampleSet : \E i \in I : \E u \in Subjects :
             /\ u.subject = s.subject
             /\ rows[i] = [sample |-> s.sample, subject |-> u.subject,
                           project |-> u.project, response |-> u.response,
                           sex |-> u.sex]
       /\ {g.project : g \in r.samples_per_project} = {rows[i].project : i \in I}
       /\ Cardinality(r.samples_per_project)
             = Cardinality({rows[i].project : i \in I})
       /\ \A g \in r.samples_per_project :
             g.num_samples = Cardinality({i \in I : rows[i].project = g.project})
       /\ {g.response : g \in r.subjects_per_response}
             = {rows[i].response : i \in I}
       /\ Cardinality(r.subjects_per_response)
             = Cardinality({rows[i].response : i \in I})
       /\ \A g \in r.subjects_per_response :
             g.num_subjects
                = Cardinality(SubjectsAmong({i \in I : rows[i].response = g.response}))
       /\ {g.sex : g \in r.subjects_per_sex} = {rows[i].sex : i \in I}
       /\ Cardinality(r.subjects_per_sex) = Cardinality({rows[i].sex : i \in I})
       /\ \A g \in r.subjects_per_sex :
             g.num_subjects
                = Cardinality(SubjectsAmong({i \in I : rows[i].sex = g.sex}))
       /\ SumNumSubjects(r.subjects_per_response) = Cardinality(SubjectsAmong(I))
       /\ SumNumSubjects(r.subjects_per_sex) = Cardinality(SubjectsAmong(I))

\* C13: the subset report of the script and of the dashboard agrees with
\* its listed rows: the rows are the samples that pass the baseline filter,
\* each once with its subject's project, response and sex, in sample order;
\* num_samples of a project is the number of listed rows of that project;
\* num_subjects of a response (of a sex) is the number of distinct subjects
\* among the listed rows of that response (sex); the per-response counts
\* and the per-sex counts each sum to the number of distinct listed subjects.
C13_ReportAgreesWithItsRows ==
    /\ SubsetRead => ReportConsistent(subset)
    /\ dashPc = "up" => ReportConsistent(dashSubset)

C13_Witness ==
    /\ pc = "idle"
    /\ exit = "ok"
    /\ dashPc = "up"
    /\ Len(subset.baseline_samples) = 2
    /\ subset.baseline_samples[1].subject = subset.baseline_samples[2].subject
    /\ subset.subjects_per_response = {[response |-> "yes", num_subjects |-> 1]}
    /\ subset.subjects_per_sex = {[sex |-> "M", num_subjects |-> 1]}
    /\ subset.samples_per_project = {[project |-> "prj1", num_samples |-> 2]}
    /\ dashSubset = subset

\* The store lacks a table or the view the dashboard reads, or holds no row.
UpstreamMissing == ~({SubjectsT, SamplesT, ViewT} \subseteq schema)

UpstreamEmpty == Subjects = {} \/ Samples = {}

\* What a tab shows of the sample data is empty.
RendersEmpty(r) ==
    /\ r.tab = "tab-2" => r.tables[1] = <<>>
    /\ r.tab = "tab-3" => \A i \in 1..Len(r.figures) : r.figures[i] = <<>>
    /\ r.tab = "tab-4" =>
          /\ r.tables[1] = <<>>
          /\ \A i \in 1..Len(r.figures) : r.figures[i] = {}

\* C14: a dashboard started on a store in which Subjects, Samples or the
\* SampleCellFrequencies view is missing or empty is up, and what its tabs
\* render of the sample data is empty.
C14_StartsOnMissingOrEmptyUpstream ==
    (dashPc # "off" /\ (UpstreamMissing \/ UpstreamEmpty)) =>
        /\ dashPc = "up"
        /\ tab # "none" => RendersEmpty(rendered)

\* The part of C14 that the start-up does keep: with the two tables and the
\* view in the store and no row in them, the dashboard is up and its tabs
\* render empty frames.
EmptyUpstreamStarts ==
    (dashPc # "off" /\ ~UpstreamMissing /\ UpstreamEmpty) =>
        /\ dashPc = "up"
        /\ tab # "none" => RendersEmpty(rendered)

EmptyUpstreamRendered ==
    /\ dashPc = "up"
    /\ Samples = {}
    /\ tab = "tab-4"

====
